---- MODULE Spec2Model ----
(***************************************************************************)
(* A model of tiny-rng (src/src/lib.rs): the Rand trait with its provided  *)
(* methods and the xorshift128+ engine Rng.                                *)
(*                                                                         *)
(* Machine words are bit vectors, and all word arithmetic (xor, shifts,    *)
(* wrapping add and subtract, comparisons, casts) is computed on the bits, *)
(* so u32/u64/i32/i64 keep their width.                                    *)
(*                                                                         *)
(* A caller owns one generator and calls the methods of Rand on it.  The   *)
(* generator is either Rng or some other implementor of the trait, of      *)
(* which only the words its rand_u32 returns are known.  Loops are         *)
(* followed one iteration per step.                                        *)
(***************************************************************************)
EXTENDS Integers, Sequences, FiniteSets, TLC

(***************************************************************************)
(* Bounds of the model.                                                    *)
(***************************************************************************)
\* calls are started only while fewer than MaxSteps generator advances were made
MaxSteps == 2
\* a rejection loop is followed for at most MaxIters iterations
MaxIters == 3
\* slices given to shuffle have at most MaxLen elements
MaxLen == 3
\* buffers given to fill have at most MaxFill bytes
MaxFill == 8

(***************************************************************************)
(* Bit vectors.  A word of width w is a sequence of w bits, most           *)
(* significant bit first; Bit(v, i) is the bit of weight 2^i.              *)
(***************************************************************************)
\* a bit vector as an explicit sequence (the same value, held element by element)
Vec(f) == f \o <<>>

Bit(v, i) == v[Len(v) - i]

Zero(w) == Vec([k \in 1..w |-> 0])

\* the word of width w whose set bits are exactly the positions in S
Word(w, S) == Vec([k \in 1..w |-> IF (w - k) \in S THEN 1 ELSE 0])

\* the word of width w holding the small natural number n (n < 2^30)
FromNat(w, n) == Vec([k \in 1..w |-> IF w - k < 30 THEN (n \div (2 ^ (w - k))) % 2 ELSE 0])

\* a word written as its hexadecimal digits, most significant digit first
FromHex(d) == Vec([k \in 1..(4 * Len(d)) |-> (d[(k + 3) \div 4] \div (2 ^ ((4 * Len(d) - k) % 4))) % 2])

IsZero(v) == \A k \in DOMAIN v : v[k] = 0

\* the position of the most significant set bit of a word that is not zero
Highest(v) == Len(v) - (CHOOSE k \in DOMAIN v : v[k] = 1 /\ \A j \in 1..(k - 1) : v[j] = 0)

RECURSIVE NatOfUpTo(_, _)
NatOfUpTo(v, i) == IF i < 0 THEN 0 ELSE Bit(v, i) * (2 ^ i) + NatOfUpTo(v, i - 1)

\* the natural number held by a word whose value is below 2^30
ToNat(v) == IF IsZero(v) THEN 0 ELSE NatOfUpTo(v, Highest(v))

Xor(a, b) == Vec([k \in DOMAIN a |-> (a[k] + b[k]) % 2])

And(a, b) == Vec([k \in DOMAIN a |-> a[k] * b[k]])

Or(a, b) == Vec([k \in DOMAIN a |-> IF a[k] + b[k] > 0 THEN 1 ELSE 0])

Not(a) == Vec([k \in DOMAIN a |-> 1 - a[k]])

Shl(a, n) == Vec([k \in DOMAIN a |-> IF k + n <= Len(a) THEN a[k + n] ELSE 0])

Shr(a, n) == Vec([k \in DOMAIN a |-> IF k - n >= 1 THEN a[k - n] ELSE 0])

\* the carries of a + b + c0, from cs = <<c0>>: element i+1 is the carry into bit i
RECURSIVE Carries(_, _, _)
Carries(a, b, cs) ==
    IF Len(cs) > Len(a) THEN cs
    ELSE LET i == Len(cs) - 1
         IN Carries(a, b, Append(cs, (Bit(a, i) + Bit(b, i) + cs[i + 1]) \div 2))

\* a + b modulo 2^w
WrappingAdd(a, b) ==
    LET cs == Carries(a, b, <<0>>)
    IN Vec([k \in DOMAIN a |-> (a[k] + b[k] + cs[Len(a) - k + 1]) % 2])

\* a - b modulo 2^w, computed as a + ~b + 1
WrappingSub(a, b) ==
    LET nb == Not(b)
        cs == Carries(a, nb, <<1>>)
    IN Vec([k \in DOMAIN a |-> (a[k] + nb[k] + cs[Len(a) - k + 1]) % 2])

\* unsigned comparison a < b: at the first bit that differs, a has 0
ULt(a, b) == \E k \in DOMAIN a : /\ a[k] = 0
                                 /\ b[k] = 1
                                 /\ \A j \in 1..(k - 1) : a[j] = b[j]

ULe(a, b) == a = b \/ ULt(a, b)

Sign(a) == a[1]

\* two's complement comparison a < b
SLt(a, b) == IF Sign(a) # Sign(b) THEN Sign(a) = 1 ELSE ULt(a, b)

SLe(a, b) == a = b \/ SLt(a, b)

\* the signed subtraction a - b does not fit the width
SubOverflows(a, b) == Sign(a) # Sign(b) /\ Sign(WrappingSub(a, b)) # Sign(a)

\* the signed addition a + b does not fit the width
AddOverflows(a, b) == Sign(a) = Sign(b) /\ Sign(WrappingAdd(a, b)) # Sign(a)

\* `v as uN` for a narrower N: the low w bits
Truncate(v, w) == Vec([k \in 1..w |-> v[Len(v) - w + k]])

\* `v as uN` for a wider N: zero extension
Extend(v, w) == Vec([k \in 1..w |-> IF k > w - Len(v) THEN v[k - (w - Len(v))] ELSE 0])

\* the word of width w holding the small integer n in two's complement
FromInt(w, n) == IF n >= 0 THEN FromNat(w, n) ELSE WrappingSub(Zero(w), FromNat(w, -n))

(***************************************************************************)
(* The xorshift128+ engine.                                                *)
(***************************************************************************)
SeedMask0 == FromHex(<<15, 4, 13, 11, 13, 15, 2, 1, 8, 3, 13, 12, 14, 15, 11, 7>>)

SeedMask1 == FromHex(<<1, 10, 13, 5, 11, 14, 0, 13, 6, 13, 13, 2, 8, 14, 9, 11>>)

\* from_seed with one constant used for both words
Rng_from_seed_one_mask(seed) == <<Xor(seed, SeedMask0), Xor(seed, SeedMask0)>>

Rng_from_seed(seed) == <<Xor(seed, SeedMask0), Xor(seed, SeedMask1)>>

\* one step: the 64-bit output and the state it leaves
Rng_rand_u64(st) ==
    LET y  == st[2]
        x  == Xor(st[1], Shl(st[1], 23))
        s1 == Xor(Xor(Xor(x, y), Shr(x, 17)), Shr(y, 26))
    IN [out |-> WrappingAdd(s1, y), st |-> <<y, s1>>]

\* rand_u32 taking the low 32 bits
Rng_rand_u32_low(st) ==
    LET r == Rng_rand_u64(st)
    IN [out |-> Truncate(r.out, 32), st |-> r.st]

\* the high 32 bits of one 64-bit step
Rng_rand_u32(st) ==
    LET r == Rng_rand_u64(st)
    IN [out |-> Truncate(Shr(r.out, 32), 32), st |-> r.st]

(***************************************************************************)
(* The primitive draws.  A draw has a set of possible outcomes: one for    *)
(* Rng, one per word of RawWords for another implementor of rand_u32.      *)
(* An outcome holds the value returned (out), the generator state left     *)
(* (st), the number of engine advances made (adv) and the words returned   *)
(* by the calls of rand_u32 it made (words).                               *)
(***************************************************************************)
\* the words an implementor of rand_u32 other than Rng may return
RawWords == { FromHex(<<0, 4, 0, 3, 0, 2, 0, 1>>),
              FromHex(<<15, 15, 15, 15, 15, 15, 8, 0>>),
              FromHex(<<15, 15, 15, 15, 15, 15, 15, 15>>) }

\* (hi as u64) << 32 | (lo as u64)
Concat(hi, lo) == Or(Shl(Extend(hi, 64), 32), Extend(lo, 64))

rand_u32(eng, st) ==
    IF eng = "Rng"
    THEN LET r == Rng_rand_u32(st)
         IN {[out |-> r.out, st |-> r.st, adv |-> 1, words |-> <<r.out>>]}
    ELSE {[out |-> w, st |-> st, adv |-> 1, words |-> <<w>>] : w \in RawWords}

\* the provided rand_u64 of the trait: two calls of rand_u32
Rand_rand_u64(eng, st) ==
    UNION { { [out |-> Concat(h.out, l.out), st |-> l.st,
               adv |-> h.adv + l.adv, words |-> h.words \o l.words]
              : l \in rand_u32(eng, h.st) }
            : h \in rand_u32(eng, st) }

\* rand_u64 as dispatched: Rng overrides the provided method
rand_u64(eng, st) ==
    IF eng = "Rng"
    THEN LET r == Rng_rand_u64(st)
         IN {[out |-> r.out, st |-> r.st, adv |-> 1, words |-> <<>>]}
    ELSE Rand_rand_u64(eng, st)

(***************************************************************************)
(* Bounded sampling.                                                       *)
(***************************************************************************)
\* x.next_power_of_two() of the standard library, for x with a result below 2^w
NextPowerOfTwo(x) ==
    LET one == FromNat(Len(x), 1)
    IN IF ULe(x, one) THEN one
       ELSE Word(Len(x), {Highest(WrappingSub(x, one)) + 1})

\* the power of two strictly above x
wrapping_next_power_of_two_u32_above(x) ==
    IF ULt(x, Word(32, {31})) THEN NextPowerOfTwo(WrappingAdd(x, FromNat(32, 1))) ELSE Zero(32)

wrapping_next_power_of_two_u32(x) ==
    IF ULe(x, Word(32, {31})) THEN NextPowerOfTwo(x) ELSE Zero(32)

wrapping_next_power_of_two_u64(x) ==
    IF ULe(x, Word(64, {63})) THEN NextPowerOfTwo(x) ELSE Zero(64)

BoundedMaskU32(m) == WrappingSub(wrapping_next_power_of_two_u32(m), FromNat(32, 1))

BoundedMaskU64(m) == WrappingSub(wrapping_next_power_of_two_u64(m), FromNat(64, 1))

\* acceptance with <= for <
Accepts_le(x, m) == ULe(x, m)

\* the test `if x < m {return x;}` of the rejection loops
Accepts(x, m) == ULt(x, m)

(***************************************************************************)
(* Floats.  A float is held exactly as sig * 2^exp.                        *)
(***************************************************************************)
\* the value of fresult while no float was returned
NoFloat == [sig |-> Zero(33), exp |-> 0]

\* `r as f32`: r rounded to 24 significant bits, ties to even
U32AsF32(r) ==
    LET v == Extend(r, 33)
    IN IF IsZero(r) \/ Highest(r) <= 23 THEN [sig |-> v, exp |-> 0]
       ELSE LET s      == Highest(r) - 23
                kept   == Shl(Shr(v, s), s)
                guard  == Bit(r, s - 1)
                sticky == \E j \in 0..(s - 2) : Bit(r, j) = 1
                up     == guard = 1 /\ (sticky \/ Bit(r, s) = 1)
            IN [sig |-> IF up THEN WrappingAdd(kept, Word(33, {s})) ELSE kept,
                exp |-> 0]

\* `r as f64`: every u32 has an exact f64
U32AsF64(r) == [sig |-> Extend(r, 33), exp |-> 0]

\* the product with the literal 2.3283064E-10 (f32) or 2.3283064365386963E-10
\* (f64); either literal is the float 2^-32, and the product is exact
MulTwoPowMinus32(f) == [sig |-> f.sig, exp |-> f.exp - 32]

FloatLessThanOne(f) == \A i \in 0..(Len(f.sig) - 1) : Bit(f.sig, i) = 1 => i + f.exp < 0

(***************************************************************************)
(* Slices.  Position i of a Rust slice is element i+1 of the sequence.     *)
(***************************************************************************)
\* a copy in place of a swap
Swap_copy(s, i, j) == [s EXCEPT ![i + 1] = s[j + 1]]

\* a.swap(i, j)
Swap(s, i, j) == [s EXCEPT ![i + 1] = s[j + 1], ![j + 1] = s[i + 1]]

\* the loop test with >= for >
ShuffleContinues_ge(i) == i >= 0

\* the loop test `while i > 0` of shuffle
ShuffleContinues(i) == i > 0

\* a refill one byte early
FillRefills_early(count) == count <= 1

\* the test `if count == 0` of fill
FillRefills(count) == count = 0

(***************************************************************************)
(* The inputs of the calls.                                                *)
(***************************************************************************)
Seeds == { Zero(64), SeedMask0, SeedMask1,
           FromHex(<<0, 0, 6, 5, 11, 1, 3, 7, 0, 0, 0, 0, 0, 0, 0, 0>>) }

Moduli32 == { Word(32, S) : S \in { {}, {0}, {1}, {0, 1}, {2}, {31}, {0, 31}, 0..31 } }

Moduli64 == { Word(64, S) : S \in { {}, {0}, {1}, {0, 1}, {63}, {0, 63}, 0..63 } }

\* pairs a < b
RangesI32 == { <<FromInt(32, 0), FromInt(32, 3)>>,
               <<FromInt(32, -2), FromInt(32, 2)>>,
               <<Word(32, {31}), FromInt(32, 0)>>,
               <<Word(32, {31}), Word(32, 0..30)>> }

RangesI64 == { <<FromInt(64, 0), FromInt(64, 3)>>,
               <<FromInt(64, -2), FromInt(64, 2)>>,
               <<Word(64, {63}), Word(64, 0..62)>> }

Elems == {1, 2}

Slices == UNION { [1..n -> Elems] : n \in 0..MaxLen }

(***************************************************************************)
(* The state.                                                              *)
(***************************************************************************)
VARIABLES
    engine,           \* "Rng", or "Other" for another implementor of Rand
    overflow_checks,  \* whether the build checks integer overflow (debug) or wraps (release)
    state,            \* the state pair of Rng; <<>> for another implementor
    steps,            \* engine advances made since construction
    pc,               \* "idle", inside a loop of a call, or "panic"
    call,             \* the call in progress or returned last: its name and arguments
    result,           \* the integer returned by the call, <<>> while there is none
    fresult,          \* the float returned by rand_f32 / rand_f64
    m, mask, iters,   \* the rejection loop: modulus, mask, iterations made
    a, i,             \* shuffle and fill: the slice; shuffle: its index i
    x, count, p,      \* fill: the word in use, bytes left in it, the position written next
    state0, a0,       \* the generator state and the slice when the call was made
    ndraws,           \* calls of rand_u32 made by the call
    words             \* the words returned by rand_u32 in the latest draw of the call

vars == <<engine, overflow_checks, state, steps, pc, call, result, fresult, m, mask, iters,
          a, i, x, count, p, state0, a0, ndraws, words>>

build == <<engine, overflow_checks>>

loop == <<m, mask, iters>>

fillv == <<x, count, p>>

Init ==
    /\ overflow_checks \in BOOLEAN
    /\ \/ /\ engine = "Rng"
          /\ \E seed \in Seeds : /\ state = Rng_from_seed(seed)
                                 /\ call = [name |-> "from_seed", args |-> <<seed>>]
       \/ /\ engine = "Other"
          /\ state = <<>>
          /\ call = [name |-> "from_seed", args |-> <<Zero(64)>>]
    /\ steps = 0
    /\ pc = "idle"
    /\ result = <<>>
    /\ fresult = NoFloat
    /\ m = <<>> /\ mask = <<>> /\ iters = 0
    /\ a = <<>> /\ i = 0
    /\ x = <<>> /\ count = 0 /\ p = 0
    /\ state0 = state /\ a0 = <<>>
    /\ ndraws = 0 /\ words = <<>>

(***************************************************************************)
(* Pieces of the actions.                                                  *)
(***************************************************************************)
\* a call is made on an idle generator
Enter(name, args, slice) ==
    /\ pc = "idle"
    /\ steps < MaxSteps
    /\ call' = [name |-> name, args |-> args]
    /\ state0' = state
    /\ a0' = slice
    /\ UNCHANGED build

\* the effect of a draw with outcome o, after n earlier calls of rand_u32
Draw(o, n) ==
    /\ state' = o.st
    /\ steps' = steps + o.adv
    /\ ndraws' = n + Len(o.words)
    /\ words' = o.words

\* a call starts without a draw
NoDrawYet ==
    /\ ndraws' = 0
    /\ words' = <<>>
    /\ UNCHANGED <<state, steps>>

NoLoop == m' = <<>> /\ mask' = <<>> /\ iters' = 0

NoSlice == a' = <<>> /\ i' = 0

NoFill == x' = <<>> /\ count' = 0 /\ p' = 0

StartLoopU32(mm) ==
    /\ m' = mm
    /\ mask' = BoundedMaskU32(mm)
    /\ iters' = 0
    /\ pc' = "bounded_u32"

StartLoopU64(mm) ==
    /\ m' = mm
    /\ mask' = BoundedMaskU64(mm)
    /\ iters' = 0
    /\ pc' = "bounded_u64"

(***************************************************************************)
(* Calls that return after one draw.                                       *)
(***************************************************************************)
CallRandU32 ==
    /\ Enter("rand_u32", <<>>, <<>>)
    /\ \E o \in rand_u32(engine, state) : Draw(o, 0) /\ result' = o.out
    /\ pc' = "idle"
    /\ fresult' = NoFloat
    /\ NoLoop /\ NoSlice /\ NoFill

CallRandU64 ==
    /\ Enter("rand_u64", <<>>, <<>>)
    /\ \E o \in rand_u64(engine, state) : Draw(o, 0) /\ result' = o.out
    /\ pc' = "idle"
    /\ fresult' = NoFloat
    /\ NoLoop /\ NoSlice /\ NoFill

CallRandF32 ==
    /\ Enter("rand_f32", <<>>, <<>>)
    /\ \E o \in rand_u32(engine, state) :
          Draw(o, 0) /\ fresult' = MulTwoPowMinus32(U32AsF32(o.out))
    /\ result' = <<>>
    /\ pc' = "idle"
    /\ NoLoop /\ NoSlice /\ NoFill

CallRandF64 ==
    /\ Enter("rand_f64", <<>>, <<>>)
    /\ \E o \in rand_u32(engine, state) :
          Draw(o, 0) /\ fresult' = MulTwoPowMinus32(U32AsF64(o.out))
    /\ result' = <<>>
    /\ pc' = "idle"
    /\ NoLoop /\ NoSlice /\ NoFill

(***************************************************************************)
(* rand_bounded_u32 / rand_bounded_u64 and the calls that go through them. *)
(***************************************************************************)
CallRandBoundedU32 ==
    \E mm \in Moduli32 :
        /\ Enter("rand_bounded_u32", <<mm>>, <<>>)
        /\ StartLoopU32(mm)
        /\ result' = <<>>
        /\ NoDrawYet /\ NoSlice /\ NoFill
        /\ fresult' = NoFloat

CallRandBoundedU64 ==
    \E mm \in Moduli64 :
        /\ Enter("rand_bounded_u64", <<mm>>, <<>>)
        /\ StartLoopU64(mm)
        /\ result' = <<>>
        /\ NoDrawYet /\ NoSlice /\ NoFill
        /\ fresult' = NoFloat

\* a + rand_bounded((b - a) as uN) as iN: the subtraction, then the loop
CallRandRangeI32 ==
    \E r \in RangesI32 :
        /\ Enter("rand_range_i32", r, <<>>)
        /\ IF overflow_checks /\ SubOverflows(r[2], r[1])
           THEN pc' = "panic" /\ NoLoop
           ELSE StartLoopU32(WrappingSub(r[2], r[1]))
        /\ result' = <<>>
        /\ NoDrawYet /\ NoSlice /\ NoFill
        /\ fresult' = NoFloat

CallRandRangeI64 ==
    \E r \in RangesI64 :
        /\ Enter("rand_range_i64", r, <<>>)
        /\ IF overflow_checks /\ SubOverflows(r[2], r[1])
           THEN pc' = "panic" /\ NoLoop
           ELSE StartLoopU64(WrappingSub(r[2], r[1]))
        /\ result' = <<>>
        /\ NoDrawYet /\ NoSlice /\ NoFill
        /\ fresult' = NoFloat

\* shuffle up to its first draw; usize is u64 (target_pointer_width = "64")
CallShuffle ==
    \E s \in Slices :
        /\ Enter("shuffle", <<>>, s)
        /\ a' = s
        /\ result' = <<>>
        /\ NoDrawYet /\ NoFill
        /\ fresult' = NoFloat
        /\ IF s = <<>>
           THEN i' = 0 /\ NoLoop /\ pc' = "idle"
           ELSE /\ i' = Len(s) - 1
                /\ IF ShuffleContinues(Len(s) - 1)
                   THEN StartLoopU64(FromNat(64, Len(s)))
                   ELSE NoLoop /\ pc' = "idle"

\* what the caller of rand_bounded_u32 does with the value xx it returns
ReturnU32(xx) ==
    IF call.name = "rand_range_i32"
    THEN IF overflow_checks /\ AddOverflows(call.args[1], xx)
         THEN pc' = "panic" /\ result' = <<>>
         ELSE pc' = "idle" /\ result' = WrappingAdd(call.args[1], xx)
    ELSE pc' = "idle" /\ result' = xx

\* one iteration of the loop of rand_bounded_u32
BoundedU32Iter ==
    /\ pc = "bounded_u32"
    /\ iters < MaxIters
    /\ \E o \in rand_u32(engine, state) :
          LET xx == And(mask, o.out)
          IN /\ Draw(o, ndraws)
             /\ IF Accepts(xx, m) THEN ReturnU32(xx) ELSE UNCHANGED <<pc, result>>
    /\ iters' = iters + 1
    /\ UNCHANGED <<build, call, fresult, m, mask, a, i, fillv, state0, a0>>

\* what the caller of rand_bounded_u64 does with the value xx it returns
ReturnU64(xx) ==
    CASE call.name = "rand_range_i64" ->
           /\ IF overflow_checks /\ AddOverflows(call.args[1], xx)
              THEN pc' = "panic" /\ result' = <<>>
              ELSE pc' = "idle" /\ result' = WrappingAdd(call.args[1], xx)
           /\ iters' = iters + 1
           /\ UNCHANGED <<m, mask, a, i>>
      [] call.name = "shuffle" ->
           /\ a' = Swap(a, i, ToNat(xx))
           /\ i' = i - 1
           /\ result' = <<>>
           /\ IF ShuffleContinues(i - 1)
              THEN StartLoopU64(FromNat(64, i))
              ELSE /\ pc' = "idle"
                   /\ iters' = iters + 1
                   /\ UNCHANGED <<m, mask>>
      [] OTHER ->
           /\ pc' = "idle" /\ result' = xx
           /\ iters' = iters + 1
           /\ UNCHANGED <<m, mask, a, i>>

\* one iteration of the loop of rand_bounded_u64
BoundedU64Iter ==
    /\ pc = "bounded_u64"
    /\ iters < MaxIters
    /\ \E o \in rand_u64(engine, state) :
          LET xx == And(mask, o.out)
          IN /\ Draw(o, ndraws)
             /\ IF Accepts(xx, m)
                THEN ReturnU64(xx)
                ELSE /\ iters' = iters + 1
                     /\ UNCHANGED <<pc, result, m, mask, a, i>>
    /\ UNCHANGED <<build, call, fresult, fillv, state0, a0>>

(***************************************************************************)
(* fill.                                                                   *)
(***************************************************************************)
\* fill up to its loop: the first word is drawn before any byte is written
CallFill ==
    \E n \in 0..MaxFill :
        /\ Enter("fill", <<>>, Vec([k \in 1..n |-> 0]))
        /\ a' = Vec([k \in 1..n |-> 0])
        /\ i' = 0
        /\ \E o \in rand_u32(engine, state) : Draw(o, 0) /\ x' = o.out
        /\ count' = 3
        /\ p' = 0
        /\ result' = <<>>
        /\ pc' = IF n = 0 THEN "idle" ELSE "fill"
        /\ NoLoop
        /\ fresult' = NoFloat

\* one iteration of `for p in a`
FillIter ==
    /\ pc = "fill"
    /\ a' = [a EXCEPT ![p + 1] = ToNat(Truncate(x, 8))]
    /\ IF FillRefills(count)
       THEN /\ \E o \in rand_u32(engine, state) : Draw(o, ndraws) /\ x' = o.out
            /\ count' = 3
       ELSE /\ x' = Shr(x, 8)
            /\ count' = count - 1
            /\ UNCHANGED <<state, steps, ndraws, words>>
    /\ p' = p + 1
    /\ pc' = IF p + 1 = Len(a) THEN "idle" ELSE "fill"
    /\ UNCHANGED <<build, call, result, fresult, loop, i, state0, a0>>

Next ==
    \/ CallRandU32
    \/ CallRandU64
    \/ CallRandF32
    \/ CallRandF64
    \/ CallRandBoundedU32
    \/ CallRandBoundedU64
    \/ CallRandRangeI32
    \/ CallRandRangeI64
    \/ CallShuffle
    \/ CallFill
    \/ BoundedU32Iter
    \/ BoundedU64Iter
    \/ FillIter

Spec == Init /\ [][Next]_vars

(***************************************************************************)
(* Properties.                                                             *)
(***************************************************************************)
Returned(names) == pc = "idle" /\ call.name \in names

Bounded == {"rand_bounded_u32", "rand_bounded_u64"}

IsPowerOfTwo(v) == Cardinality({k \in DOMAIN v : v[k] = 1}) = 1

High32(v) == Truncate(Shr(v, 32), 32)

Low32(v) == Truncate(v, 32)

\* s and t hold the same elements, each as many times
SameMultiset(s, t) ==
    /\ Len(s) = Len(t)
    /\ \A e \in Elems : Cardinality({k \in DOMAIN s : s[k] = e})
                        = Cardinality({k \in DOMAIN t : t[k] = e})

\* C1: whenever rand_bounded_u32(m) or rand_bounded_u64(m) returns for a
\* modulus m > 0, the value returned is below m (and, being unsigned, at
\* least 0), whatever words the generator produced.
C1_BoundedInRange ==
    (Returned(Bounded) /\ ~IsZero(call.args[1])) => ULt(result, call.args[1])

\* a modulus above 2^31, whose next power of two wraps to 0: a word was
\* rejected and a later one returned
C1_Witness ==
    /\ Returned({"rand_bounded_u32"})
    /\ call.args[1] = Word(32, 0..31)
    /\ iters > 1
    /\ ULt(result, call.args[1])

\* C2: a call of rand_bounded_u32 / rand_bounded_u64 with modulus 0 fails
\* at once: it panics, the rejection loop is not entered and no word is
\* drawn from the generator.
C2_ZeroModulusRejected ==
    (call.name \in Bounded /\ IsZero(call.args[1]))
        => (pc = "panic" /\ iters = 0 /\ ndraws = 0 /\ state = state0)

\* C3: for a modulus that is a power of two, rand_bounded_u32 and
\* rand_bounded_u64 return after exactly one iteration of the rejection
\* loop: no masked draw is rejected.
C3_PowerOfTwoOneDraw ==
    (call.name \in Bounded /\ IsPowerOfTwo(call.args[1]))
        => /\ pc \in {"bounded_u32", "bounded_u64"} => iters = 0
           /\ pc = "idle" => iters = 1

\* the largest power of two of the 64-bit form was sampled
C3_Witness ==
    /\ Returned({"rand_bounded_u64"})
    /\ call.args[1] = Word(64, {63})
    /\ iters = 1

\* C4: the state pair of Rng is never (0, 0): not after from_seed, and not
\* after any number of steps.
C4_StateNotZero ==
    engine = "Rng" => state # <<Zero(64), Zero(64)>>

\* Rng was made from the seed that zeroes the first word, and has stepped
C4_Witness ==
    /\ engine = "Rng"
    /\ IsZero(state0[1])
    /\ steps >= 2

\* C5: shuffle is a Fisher-Yates pass.  While it runs, i goes down from
\* len-1 to 1 and the draw in progress is rand_bounded(i+1); each accepted
\* draw j swaps positions i and j and leaves the rest alone; so the slice
\* always holds the same multiset of elements as the input.
C5_ShufflePermutes ==
    /\ [](call.name = "shuffle" =>
            /\ SameMultiset(a, a0)
            /\ pc = "bounded_u64" => (i \in 1..(Len(a) - 1) /\ m = FromNat(64, i + 1))
            /\ pc = "idle" => i = 0)
    /\ [][(pc = "bounded_u64" /\ call.name = "shuffle" /\ i' # i) =>
            /\ i' = i - 1
            /\ \E j \in 0..i :
                  /\ a'[i + 1] = a[j + 1]
                  /\ a'[j + 1] = a[i + 1]
                  /\ \A k \in DOMAIN a : k \notin {i + 1, j + 1} => a'[k] = a[k]]_vars

\* a slice of three elements came back in another order
C5_Witness ==
    /\ Returned({"shuffle"})
    /\ Len(a) = 3
    /\ a # a0

\* C6: shuffle of a slice of 0 or 1 elements returns at once with the slice
\* and the generator state unchanged and without a draw.
C6_ShortShuffleNoOp ==
    (call.name = "shuffle" /\ Len(a0) <= 1)
        => (pc = "idle" /\ a = a0 /\ state = state0 /\ ndraws = 0 /\ iters = 0)

\* shuffle returned for a slice of one element
C6_Witness ==
    /\ Returned({"shuffle"})
    /\ Len(a0) = 1

\* C7 as stated: fill of n bytes calls rand_u32 exactly ceil(n/4) times.
C7_FillCeilDraws ==
    Returned({"fill"}) => ndraws = (Len(a) + 3) \div 4

\* C7 as amended: fill of n bytes calls rand_u32 exactly floor(n/4) + 1
\* times, once before the first byte and once after every fourth byte
\* written; that is ceil(n/4) unless n is a multiple of 4 (0 included),
\* where it is one more.
C7_FillDraws ==
    Returned({"fill"}) => ndraws = (Len(a) \div 4) + 1

\* a buffer of 8 bytes was filled with three draws
C7_Witness ==
    /\ Returned({"fill"})
    /\ Len(a) = 8
    /\ ndraws = 3

\* C8 as stated: for every generator, Rng included, rand_u64 returns the
\* concatenation of two consecutive rand_u32 outputs, high word first, and
\* leaves the generator where two rand_u32 steps leave it.
C8_U64IsTwoU32 ==
    Returned({"rand_u64"})
        => \E o \in Rand_rand_u64(engine, state0) : result = o.out /\ state = o.st

\* C8 as amended: the rand_u64 provided by the trait, used by a generator
\* that does not override it, makes exactly two calls of rand_u32 and
\* returns their outputs concatenated, the first as the high word.  Rng
\* overrides it: its rand_u64 makes one xorshift128+ step and returns the
\* 64-bit output of it, and rand_u32 from the same state makes the same one
\* step and returns the high word of that output.
C8_U64PerEngine ==
    Returned({"rand_u64"})
        => IF engine = "Rng"
           THEN /\ ndraws = 0
                /\ state = Rng_rand_u64(state0).st
                /\ result = Rng_rand_u64(state0).out
                /\ state = Rng_rand_u32(state0).st
                /\ High32(result) = Rng_rand_u32(state0).out
           ELSE /\ ndraws = 2
                /\ Len(words) = 2
                /\ High32(result) = words[1]
                /\ Low32(result) = words[2]

\* rand_u64 of Rng returned a value whose two halves differ
C8_Witness ==
    /\ Returned({"rand_u64"})
    /\ engine = "Rng"
    /\ High32(result) # Low32(result)

\* C9: for a < b, rand_range_i32(a, b) and rand_range_i64(a, b) never fail
\* on arithmetic overflow and return r with a <= r < b.
C9_SignedRangeTotal ==
    call.name \in {"rand_range_i32", "rand_range_i64"}
        => /\ pc # "panic"
           /\ pc = "idle" => (SLe(call.args[1], result) /\ SLt(result, call.args[2]))

\* C10: rand_f32 and rand_f64 return x with 0 <= x < 1 (x is held as an
\* unsigned significand times a power of two, so 0 <= x).
C10_FloatBelowOne ==
    Returned({"rand_f32", "rand_f64"}) => FloatLessThanOne(fresult)

====
